---------------------------- MODULE Spec2Model ----------------------------
(***************************************************************************)
(* conbench web application: the compare views (conbench/app/compare.py)   *)
(* and the benchmark views over the in-memory result cache                 *)
(* (conbench/app/benchmarks.py).                                           *)
(*                                                                         *)
(* Python values are modelled as follows.  A str that the code parses is a *)
(* sequence of one-character strings; other strs are TLA+ strings.  A list *)
(* is a sequence.  A dict is a sequence of <<key, value>> pairs in         *)
(* insertion order (Python dicts iterate in insertion order).  None is     *)
(* the empty tuple for object-valued fields and NoMsg for message strings. *)
(*                                                                         *)
(* Every request is one that authorize_or_terminate lets through to the    *)
(* view; templates, URL building and the API layer behind get_comparisons  *)
(* are outside the model and appear only through the values they receive   *)
(* or return.                                                              *)
(***************************************************************************)
EXTENDS Integers, Sequences, FiniteSets, TLC

VARIABLES
    bmrt_cache,   \* conbench.job.bmrt_cache: by_id, by_benchmark_name, meta
    req,          \* the benchmark-view request in flight and its locals
    nreq,         \* number of benchmark-view requests started so far
    cmp           \* the compare-view request and its response

vars == <<bmrt_cache, req, nreq, cmp>>

None == <<>>

\* ------------------------------------------------------------------------
\* Bounds of the model
\* ------------------------------------------------------------------------

\* Longest compare token drawn ("a...a...a" has 9 characters).
MaxTokenLen == 9

\* Longest list of comparisons the comparison lookup returns.
MaxComparisons == 2

\* ------------------------------------------------------------------------
\* Generic helpers
\* ------------------------------------------------------------------------

SeqsUpTo(S, n) == UNION {[1..k -> S] : k \in 0..n}

Range(s) == {s[i] : i \in DOMAIN s}

MaxOf(S) == CHOOSE m \in S : \A x \in S : x <= m

MinOf(S) == CHOOSE m \in S : \A x \in S : m <= x

\* ------------------------------------------------------------------------
\* compare.py: the compare token
\* ------------------------------------------------------------------------

Chars == {"a", "."}

Dots == <<".", ".", ".">>

\* Positions at which the literal "..." starts in s.
DotsAt(s) == {i \in 1..(Len(s) - 2) : SubSeq(s, i, i + 2) = Dots}

\* `"..." in s`
HasDots(s) == DotsAt(s) # {}

\* The mutant of SplitOnce: the split is at the last "...".
SplitAtLast(s) ==
    LET i == MaxOf(DotsAt(s))
    IN  <<SubSeq(s, 1, i - 1), SubSeq(s, i + 3, Len(s))>>

\* `s.split("...", 1)` for an s that contains "...": the text before the
\* first occurrence and the text after it.
SplitOnce(s) ==
    LET i == MinOf(DotsAt(s))
    IN  <<SubSeq(s, 1, i - 1), SubSeq(s, i + 3, Len(s))>>

\* f'{a}...{b}'
JoinIds(a, b) == a \o Dots \o b

\* flask.url_for(view, compare_ids=compare): the URL is determined by the
\* view and the compare token it carries.
UrlFor(view, compare) == [view |-> view, compare_ids |-> compare]


\* ------------------------------------------------------------------------
\* compare.py: the comparison lookup and the compare view
\* ------------------------------------------------------------------------

\* No message (Python None) where the code holds an optional message string.
NoMsg == "None"

\* The two concrete views: CompareBenchmarkResults.type and CompareRuns.type.
CompareTypes == {"benchmark-result", "run"}

\* Titles of the two views.
TitleOf(type) ==
    IF type = "run" THEN "Compare Runs" ELSE "Compare Benchmark Results"

\* The benchmark result ids the lookup reports for its k-th entry.
BaselineResultId(k) == [i \in 1..k |-> "a"]

ContenderResultId(k) == [i \in 1..k |-> "b"]

\* One side of a comparison entry: a dict holding the result id, or None.
Side(present, id) == IF present THEN [benchmark_result_id |-> id] ELSE None

\* The lists of comparison entries of length n the API layer can return:
\* each entry has each of its sides present or null.
ComparisonLists(n) ==
    { [k \in 1..n |-> [baseline  |-> Side(p[k][1], BaselineResultId(k)),
                       contender |-> Side(p[k][2], ContenderResultId(k))]] :
        p \in [1..n -> BOOLEAN \X BOOLEAN] }

\* What get_comparisons can return, as <<comparisons, errmsg>>.  The API
\* layer behind it is outside this model: its answer is any value of the
\* shape the two implementations produce.
\*   CompareBenchmarkResults: status 200 gives ([response.json], None), every
\*     other status gives ([], response text or description).
\*   CompareRuns: (response["data"], None), or ([], e.description) on an
\*     HTTPException, whose description may be absent.
GetComparisons(type) ==
    IF type = "benchmark-result"
    THEN {<<c, NoMsg>> : c \in ComparisonLists(1)}
         \cup {<<<<>>, m>> : m \in {"", "not found"}}
    ELSE {<<c, NoMsg>> : c \in UNION {ComparisonLists(n) : n \in 0..MaxComparisons}}
         \cup {<<<<>>, m>> : m \in {NoMsg, "", "not found"}}

\* Python truth value of a message: None and "" are false.
MsgTruthy(m) == m # NoMsg /\ m # ""

\* Python truth value of an entry's side: None is false, a dict with a key
\* is true.
SideTruthy(s) == s # None

\* The mutant of WithCompareUrl: the link is built when either side is there.
WithCompareUrlEitherSide(c) ==
    IF SideTruthy(c.baseline) \/ SideTruthy(c.contender)
    THEN [baseline |-> c.baseline, contender |-> c.contender,
          compare_benchmarks_url |->
              UrlFor("app.compare-benchmark-results",
                     JoinIds(IF SideTruthy(c.baseline)
                             THEN c.baseline.benchmark_result_id ELSE <<>>,
                             IF SideTruthy(c.contender)
                             THEN c.contender.benchmark_result_id ELSE <<>>))]
    ELSE [baseline |-> c.baseline, contender |-> c.contender,
          compare_benchmarks_url |-> None]

\* The body of the loop of _compare: the entry with its compare link set.
WithCompareUrl(c) ==
    IF SideTruthy(c.baseline) /\ SideTruthy(c.contender)
    THEN [baseline |-> c.baseline, contender |-> c.contender,
          compare_benchmarks_url |->
              UrlFor("app.compare-benchmark-results",
                     JoinIds(c.baseline.benchmark_result_id,
                             c.contender.benchmark_result_id))]
    ELSE [baseline |-> c.baseline, contender |-> c.contender,
          compare_benchmarks_url |-> None]

\* Compare._compare, given what get_comparisons returned.
Compare_compare(got) ==
    IF MsgTruthy(got[2])
    THEN <<<<>>, got[2]>>
    ELSE <<[k \in DOMAIN got[1] |-> WithCompareUrl(got[1][k])], NoMsg>>

\* app._util.error_page: the page is determined by its message and subtitle.
ErrorPage(message, subtitle) ==
    [kind |-> "error_page", message |-> message, subtitle |-> subtitle]

\* Compare.page: the template is rendered with the comparisons and the ids.
Page(type, comparisons, baseline_id, contender_id) ==
    [kind |-> "page", type |-> type, comparisons |-> comparisons,
     baseline_id |-> baseline_id, contender_id |-> contender_id]

\* The mutant of CompareGetResult: the check for an empty contender is gone.
CompareGetResultNoContenderCheck(type, compare_ids, got) ==
    IF ~HasDots(compare_ids)
    THEN [response |-> ErrorPage("unexpected URL path pattern", TitleOf(type)),
          lookups |-> <<>>, result |-> None]
    ELSE
    LET ids == SplitOnce(compare_ids)
        res == Compare_compare(got)
    IN  IF ids[1] = <<>>
        THEN [response |-> ErrorPage("no baseline ID", TitleOf(type)),
              lookups |-> <<>>, result |-> None]
        ELSE IF res[2] # NoMsg
        THEN [response |-> ErrorPage("cannot perform comparison", TitleOf(type)),
              lookups |-> <<ids>>, result |-> res]
        ELSE IF Len(res[1]) = 0
        THEN [response |-> ErrorPage("comparison yielded 0 benchmark results",
                                     TitleOf(type)),
              lookups |-> <<ids>>, result |-> res]
        ELSE [response |-> Page(type, res[1], ids[1], ids[2]),
              lookups |-> <<ids>>, result |-> res]

\* The mutant of CompareGetResult: an empty comparison list is rendered.
CompareGetResultNoEmptyCheck(type, compare_ids, got) ==
    IF ~HasDots(compare_ids)
    THEN [response |-> ErrorPage("unexpected URL path pattern", TitleOf(type)),
          lookups |-> <<>>, result |-> None]
    ELSE
    LET ids == SplitOnce(compare_ids)
        res == Compare_compare(got)
    IN  IF ids[1] = <<>>
        THEN [response |-> ErrorPage("no baseline ID", TitleOf(type)),
              lookups |-> <<>>, result |-> None]
        ELSE IF ids[2] = <<>>
        THEN [response |-> ErrorPage("no contender ID", TitleOf(type)),
              lookups |-> <<>>, result |-> None]
        ELSE IF res[2] # NoMsg
        THEN [response |-> ErrorPage("cannot perform comparison", TitleOf(type)),
              lookups |-> <<ids>>, result |-> res]
        ELSE [response |-> Page(type, res[1], ids[1], ids[2]),
              lookups |-> <<ids>>, result |-> res]

\* Compare.get: the response, the calls made to get_comparisons (each a
\* <<baseline_id, contender_id>> pair) and what _compare returned, for a
\* request of the given view with the given token, where `got` is what
\* get_comparisons returns if it is called.
CompareGetResult(type, compare_ids, got) ==
    IF ~HasDots(compare_ids)
    THEN [response |-> ErrorPage("unexpected URL path pattern", TitleOf(type)),
          lookups |-> <<>>, result |-> None]
    ELSE
    LET ids == SplitOnce(compare_ids)
        res == Compare_compare(got)
    IN  IF ids[1] = <<>>
        THEN [response |-> ErrorPage("no baseline ID", TitleOf(type)),
              lookups |-> <<>>, result |-> None]
        ELSE IF ids[2] = <<>>
        THEN [response |-> ErrorPage("no contender ID", TitleOf(type)),
              lookups |-> <<>>, result |-> None]
        ELSE IF res[2] # NoMsg
        THEN [response |-> ErrorPage("cannot perform comparison", TitleOf(type)),
              lookups |-> <<ids>>, result |-> res]
        ELSE IF Len(res[1]) = 0
        THEN [response |-> ErrorPage("comparison yielded 0 benchmark results",
                                     TitleOf(type)),
              lookups |-> <<ids>>, result |-> res]
        ELSE [response |-> Page(type, res[1], ids[1], ids[2]),
              lookups |-> <<ids>>, result |-> res]

\* No compare request.
CmpIdle == [pc |-> "idle"]

\* A compare request that has arrived at Compare.get.
CmpRequest(type, compare_ids) ==
    [pc |-> "request", type |-> type, compare_ids |-> compare_ids]

\* Compare.get handles the request: validation, _compare, the response.
CompareGet ==
    /\ cmp.pc = "request"
    /\ \E got \in GetComparisons(cmp.type) :
          LET r == CompareGetResult(cmp.type, cmp.compare_ids, got)
          IN  cmp' = [pc |-> "done", type |-> cmp.type,
                      compare_ids |-> cmp.compare_ids,
                      got |-> IF r.lookups = <<>> THEN None ELSE got,
                      result |-> r.result,
                      lookups |-> r.lookups,
                      response |-> r.response]
    /\ UNCHANGED <<bmrt_cache, req, nreq>>

\* ------------------------------------------------------------------------
\* Python lists and dicts
\* ------------------------------------------------------------------------

\* The n-th smallest element of a finite set of integers.
NthSmallest(S, n) == CHOOSE x \in S : Cardinality({y \in S : y < x}) = n - 1

\* Keys of a dict.
DictKeys(d) == {d[i][1] : i \in DOMAIN d}

\* `k in d`
DictHas(d, k) == k \in DictKeys(d)

\* `d[k]` for a key that is there.
DictGet(d, k) == d[CHOOSE i \in DOMAIN d : d[i][1] = k][2]

\* The items of s at the positions in I, in the order of s.
ItemsAt(s, I) == [n \in 1..Cardinality(I) |-> s[NthSmallest(I, n)]]

\* Below, keys[i] is the sort or group key of s[i].
\* The dict built by `for x in s: d[key(x)].append(x)` on an empty
\* defaultdict(list): one entry per key, in order of first occurrence, each
\* holding the items with that key in the order of s.
GroupBy(s, keys) ==
    LET first == {i \in DOMAIN s : \A j \in 1..(i - 1) : keys[j] # keys[i]}
    IN  [n \in 1..Cardinality(first) |->
            LET k == keys[NthSmallest(first, n)]
            IN  <<k, ItemsAt(s, {i \in DOMAIN s : keys[i] = k})>>]

\* `sorted(s, key=key)`: ascending, items with equal keys keep their order.
SortedAsc(s, keys) ==
    LET rank(i) == Cardinality({j \in DOMAIN s : keys[j] < keys[i]})
                   + Cardinality({j \in 1..(i - 1) : keys[j] = keys[i]}) + 1
    IN  [n \in DOMAIN s |-> s[CHOOSE i \in DOMAIN s : rank(i) = n]]

\* `sorted(s, key=key, reverse=True)`: descending, items with equal keys
\* keep their order (reverse=True preserves stability).
SortedDesc(s, keys) ==
    LET rank(i) == Cardinality({j \in DOMAIN s : keys[j] > keys[i]})
                   + Cardinality({j \in 1..(i - 1) : keys[j] = keys[i]}) + 1
    IN  [n \in DOMAIN s |-> s[CHOOSE i \in DOMAIN s : rank(i) = n]]

\* `s[:n]`
Take(s, n) == SubSeq(s, 1, IF n < Len(s) THEN n ELSE Len(s))

\* ------------------------------------------------------------------------
\* Benchmark results and the cache (conbench.job.bmrt_cache)
\* ------------------------------------------------------------------------

\* A BMRTBenchmarkResult.  `mean` is None (a failed result) or <<value>>.
Result(id, bname, case_id, hwid, ctxid, started_at, mean, unit) ==
    [id |-> id, benchmark_name |-> bname, case_id |-> case_id,
     hardware_id |-> hwid, context_id |-> ctxid, started_at |-> started_at,
     mean |-> mean, unit |-> unit]

\* The name of a hardware is an attribute of the hardware the id names.
HardwareName(hwid) == <<"hardware", hwid>>

\* The benchmark names of the model in alphabetical order of their
\* lower-cased form, and the place of a name in it: the sort key
\* `item[0].lower()` of list_benchmarks.
NamesByLower == <<"alpha", "Beta", "zeta">>

LowerRank(name) == CHOOSE i \in DOMAIN NamesByLower : NamesByLower[i] = name

\* A snapshot of the cache as the refresh job builds it from the results it
\* loaded: by_id keyed by result id, by_benchmark_name a defaultdict(list)
\* filled in the order of the results, and the refresh metadata.
BuildSnapshot(results, refreshed_at) ==
    [by_id |-> [i \in DOMAIN results |-> <<results[i].id, results[i]>>],
     by_benchmark_name |->
        GroupBy(results, [i \in DOMAIN results |-> results[i].benchmark_name]),
     meta |-> [last_refreshed |-> refreshed_at, n_results |-> Len(results)]]

\* `d[k]` on a defaultdict(list): the value, and the dict afterwards.  A
\* missing key is inserted with an empty list and no KeyError is raised
\* (the comment in show_benchmark_cases says so of by_benchmark_name).
DefaultDictGetItem(d, k) ==
    IF DictHas(d, k)
    THEN [value |-> DictGet(d, k), dict |-> d]
    ELSE [value |-> <<>>, dict |-> Append(d, <<k, <<>>>>)]

\* newest_of_many_results: max() returns the first of the items whose key
\* is maximal.  The list is not empty (max() raises ValueError on []).
newest_of_many_results(results) ==
    LET m == MaxOf({results[i].started_at : i \in DOMAIN results})
    IN  results[MinOf({i \in DOMAIN results : results[i].started_at = m})]

\* ------------------------------------------------------------------------
\* benchmarks.py: what the three views compute
\* ------------------------------------------------------------------------

\* A series is plotted only if it has at least this many results.
MinPlotPoints == 3

\* The cap of the results table.  The code's cap is 3000; the model walks
\* the same loop with a cap small enough for its result lists to cross.
TableCap == 6

\* newest_result_for_each_benchmark_name_sorted[:15]
TopN == 15

\* _UNIT_REPLACE_MAP and maybe_longer_unit.
maybe_longer_unit(unit) ==
    IF unit = "s" THEN "seconds"
    ELSE IF unit = "i/s" THEN "iterations / second"
    ELSE unit

\* The key of results_by_hardware_and_context.
HardwareAndContext(r) ==
    <<r.hardware_id, r.context_id, HardwareName(r.hardware_id)>>

\* The mutant of GroupsSorted: the groups are left in insertion order.
GroupsInInsertionOrder(matching_results) ==
    GroupBy(matching_results,
            [i \in DOMAIN matching_results |->
                HardwareAndContext(matching_results[i])])

\* results_by_hardware_and_context_sorted: the groups, most results first.
GroupsSorted(matching_results) ==
    LET results_by_hardware_and_context ==
            GroupBy(matching_results,
                    [i \in DOMAIN matching_results |->
                        HardwareAndContext(matching_results[i])])
    IN  SortedDesc(results_by_hardware_and_context,
                   [n \in DOMAIN results_by_hardware_and_context |->
                       Len(results_by_hardware_and_context[n][2])])

\* The loop that fills results_for_table, from the i-th group on.
RECURSIVE TableWalk(_, _, _)
TableWalk(groups, i, table) ==
    IF i > Len(groups)
    THEN table
    ELSE LET extended == table \o Take(groups[i][2], TableCap)
         IN  IF Len(extended) >= TableCap
             THEN extended
             ELSE TableWalk(groups, i + 1, extended)

\* results_for_table
ResultsForTable(groups) == TableWalk(groups, 1, <<>>)

\* The groups that pass `if len(results) < 3: continue`.
PlottedGroups(groups) ==
    SelectSeq(groups, LAMBDA item : ~(Len(item[2]) < MinPlotPoints))

\* One value of infos_for_uplots, with its key f"{hwid}_{ctxid}" (ids are
\* hex digests, so the key is the pair).
PlotInfo(item) ==
    LET results == item[2]
        newest_result == newest_of_many_results(results)
    IN  [key |-> <<item[1][1], item[1][2]>>,
         data_for_uplot |->
            << [i \in DOMAIN results |-> results[i].started_at],
               LET with_mean == SelectSeq(results, LAMBDA r : r.mean # None)
               IN  [i \in DOMAIN with_mean |-> with_mean[i].mean[1]] >>,
         title |-> <<HardwareName(results[1].hardware_id), item[1][2],
                     Len(results)>>,
         url_to_newest_result |-> newest_result.id,
         unit |-> newest_result.unit]

\* infos_for_uplots, in insertion order.  The keys are distinct: groups
\* differ in hardware id or context id, the hardware name follows the id.
InfosForUplots(groups) ==
    LET plotted == PlottedGroups(groups)
    IN  [n \in DOMAIN plotted |-> PlotInfo(plotted[n])]

\* The units of every group, plotted or not.
UnitsSeenInAllGroups(groups) ==
    UNION {{groups[n][2][i].unit : i \in DOMAIN groups[n][2]} :
              n \in DOMAIN groups}

\* units_seen
UnitsSeen(groups) ==
    LET plotted == PlottedGroups(groups)
    IN  UNION {{plotted[n][2][i].unit : i \in DOMAIN plotted[n][2]} :
                  n \in DOMAIN plotted}

\* show_benchmark_cases: the per-case dicts built from the bucket.
CasesOf(matching_results) ==
    LET results_by_case_id ==
            GroupBy(matching_results,
                    [i \in DOMAIN matching_results |->
                        matching_results[i].case_id])
    IN  [results_by_case_id |-> results_by_case_id,
         hardware_count_per_case_id |->
            [n \in DOMAIN results_by_case_id |->
                <<results_by_case_id[n][1],
                  Cardinality({results_by_case_id[n][2][i].hardware_id :
                                  i \in DOMAIN results_by_case_id[n][2]})>>],
         context_count_per_case_id |->
            [n \in DOMAIN results_by_case_id |->
                <<results_by_case_id[n][1],
                  Cardinality({results_by_case_id[n][2][i].context_id :
                                  i \in DOMAIN results_by_case_id[n][2]})>>],
         last_result_per_case_id |->
            [n \in DOMAIN results_by_case_id |->
                <<results_by_case_id[n][1],
                  newest_of_many_results(results_by_case_id[n][2])>>],
         benchmark_result_count |-> Len(matching_results)]

\* list_benchmarks: benchmarks_by_name_sorted_alphabetically.
SortedAlphabetically(by_benchmark_name) ==
    SortedAsc(by_benchmark_name,
              [n \in DOMAIN by_benchmark_name |->
                  LowerRank(by_benchmark_name[n][1])])

\* list_benchmarks: newest_result_for_each_benchmark_name_sorted[:15], for
\* buckets that are not empty.
NewestTopN(by_benchmark_name) ==
    LET newest_result_by_bname ==
            [n \in DOMAIN by_benchmark_name |->
                <<by_benchmark_name[n][1],
                  newest_of_many_results(by_benchmark_name[n][2])>>]
        sorted == SortedDesc(newest_result_by_bname,
                             [n \in DOMAIN newest_result_by_bname |->
                                 newest_result_by_bname[n][2].started_at])
    IN  Take([n \in DOMAIN sorted |-> sorted[n][2]], TopN)

\* ------------------------------------------------------------------------
\* benchmarks.py: the views as request handlers
\*
\* A handler runs in a request thread while the refresh job runs in its own
\* thread, so a handler is one step per read of bmrt_cache; the step holds
\* the code from that read up to the next one.  pc names the source line of
\* the read the request is about to make.
\* ------------------------------------------------------------------------

\* Most benchmark-view requests served in one run of the model.
MaxRequests == 3

\* Most snapshot installs in one run of the model.
MaxInstalls == 2

Handlers == {"list_benchmarks", "show_benchmark_cases", "show_benchmark_results"}

CaseIds == {"c1", "c2"}

FirstPc(handler) ==
    IF handler = "list_benchmarks" THEN "L37"
    ELSE IF handler = "show_benchmark_cases" THEN "C74"
    ELSE "R125"

ReqIdle == [pc |-> "idle"]

\* The snapshot the cache holds now, named by its refresh time.
CurrentSnapshot == bmrt_cache.meta.last_refreshed

\* The request with its next read at pc, the locals loc, and the snapshot
\* of the read just made added to those it has read from.
Proceed(pc, loc) ==
    [handler |-> req.handler, bname |-> req.bname, caseid |-> req.caseid,
     pc |-> pc, loc |-> loc, log |-> req.log,
     snapshots_read |-> req.snapshots_read \cup {CurrentSnapshot}]

\* The request answered with resp; the locals are gone.
Respond(resp) ==
    [handler |-> req.handler, bname |-> req.bname, caseid |-> req.caseid,
     pc |-> "done", resp |-> resp, log |-> req.log,
     snapshots_read |-> req.snapshots_read \cup {CurrentSnapshot}]

\* The request died with an uncaught exception after the read at hand.
Raise(error) ==
    [handler |-> req.handler, bname |-> req.bname, caseid |-> req.caseid,
     pc |-> "done", resp |-> [kind |-> "exception", error |-> error],
     log |-> req.log,
     snapshots_read |-> req.snapshots_read \cup {CurrentSnapshot}]

\* The request r after log.warning(...) at line 219.
Warned(r, warn) ==
    IF warn THEN [r EXCEPT !.log = Append(@, "saw more than one unit")] ELSE r

Text(text) == [kind |-> "text", text |-> text]

\* A request arrives at one of the views.
StartRequest(handlers, bnames, caseids, limit) ==
    /\ req.pc \in {"idle", "done"}
    /\ nreq < limit
    /\ \E h \in handlers, b \in bnames, c \in caseids :
          /\ h = "list_benchmarks" => b = "" /\ c = ""
          /\ h = "show_benchmark_cases" => b # "" /\ c = ""
          /\ h = "show_benchmark_results" => b # "" /\ c # ""
          /\ req' = [handler |-> h, bname |-> b, caseid |-> c,
                     pc |-> FirstPc(h), loc |-> None, log |-> <<>>,
                     snapshots_read |-> {}]
    /\ nreq' = nreq + 1
    /\ UNCHANGED <<bmrt_cache, cmp>>

\* list_benchmarks, lines 35-39: the names sorted alphabetically.
ListBenchmarks_L37 ==
    /\ req.pc = "L37"
    /\ req' = Proceed("L43",
                [benchmarks_by_name_sorted_alphabetically |->
                    SortedAlphabetically(bmrt_cache.by_benchmark_name)])
    /\ UNCHANGED <<bmrt_cache, nreq, cmp>>

\* list_benchmarks, lines 41-53: the newest result of every name.  max()
\* of an empty bucket raises ValueError.
ListBenchmarks_L43 ==
    /\ req.pc = "L43"
    /\ LET by_benchmark_name == bmrt_cache.by_benchmark_name
       IN  IF \E n \in DOMAIN by_benchmark_name : by_benchmark_name[n][2] = <<>>
           THEN req' = Raise("ValueError")
           ELSE req' = Proceed("L57",
                         [benchmarks_by_name_sorted_alphabetically |->
                              req.loc.benchmarks_by_name_sorted_alphabetically,
                          newest_result_for_each_benchmark_name_topN |->
                              NewestTopN(by_benchmark_name)])
    /\ UNCHANGED <<bmrt_cache, nreq, cmp>>

\* list_benchmarks, line 57: benchmarks_by_name.
ListBenchmarks_L57 ==
    /\ req.pc = "L57"
    /\ req' = Proceed("L58",
                [benchmarks_by_name_sorted_alphabetically |->
                     req.loc.benchmarks_by_name_sorted_alphabetically,
                 newest_result_for_each_benchmark_name_topN |->
                     req.loc.newest_result_for_each_benchmark_name_topN,
                 benchmarks_by_name |-> bmrt_cache.by_benchmark_name])
    /\ UNCHANGED <<bmrt_cache, nreq, cmp>>

\* list_benchmarks, line 58: benchmark_result_count.
ListBenchmarks_L58 ==
    /\ req.pc = "L58"
    /\ req' = Proceed("L63",
                [benchmarks_by_name_sorted_alphabetically |->
                     req.loc.benchmarks_by_name_sorted_alphabetically,
                 newest_result_for_each_benchmark_name_topN |->
                     req.loc.newest_result_for_each_benchmark_name_topN,
                 benchmarks_by_name |-> req.loc.benchmarks_by_name,
                 benchmark_result_count |-> Len(bmrt_cache.by_id)])
    /\ UNCHANGED <<bmrt_cache, nreq, cmp>>

\* list_benchmarks, lines 63-66: bmr_cache_meta, and the page is rendered.
ListBenchmarks_L63 ==
    /\ req.pc = "L63"
    /\ req' = Respond(
                [kind |-> "page", template |-> "c-benchmarks.html",
                 benchmarks_by_name |-> req.loc.benchmarks_by_name,
                 benchmark_result_count |-> req.loc.benchmark_result_count,
                 benchmarks_by_name_sorted_alphabetically |->
                     req.loc.benchmarks_by_name_sorted_alphabetically,
                 newest_result_for_each_benchmark_name_topN |->
                     req.loc.newest_result_for_each_benchmark_name_topN,
                 bmr_cache_meta |-> bmrt_cache.meta])
    /\ UNCHANGED <<bmrt_cache, nreq, cmp>>

\* show_benchmark_cases, lines 74-75: the membership test.
ShowBenchmarkCases_C74 ==
    /\ req.pc = "C74"
    /\ IF ~DictHas(bmrt_cache.by_benchmark_name, req.bname)
       THEN req' = Respond(Text("benchmark name not known"))
       ELSE req' = Proceed("C77", None)
    /\ UNCHANGED <<bmrt_cache, nreq, cmp>>

\* show_benchmark_cases, lines 77-97: the bucket is read and grouped by case.
ShowBenchmarkCases_C77 ==
    /\ req.pc = "C77"
    /\ LET got == DefaultDictGetItem(bmrt_cache.by_benchmark_name, req.bname)
       IN  /\ bmrt_cache' = [bmrt_cache EXCEPT !.by_benchmark_name = got.dict]
           /\ req' = Proceed("C102", CasesOf(got.value))
    /\ UNCHANGED <<nreq, cmp>>

\* show_benchmark_cases, lines 99-110: bmr_cache_meta, and the page is
\* rendered.
ShowBenchmarkCases_C102 ==
    /\ req.pc = "C102"
    /\ req' = Respond(
                [kind |-> "page", template |-> "c-benchmark-cases.html",
                 benchmark_name |-> req.bname,
                 bmr_cache_meta |-> bmrt_cache.meta,
                 results_by_case_id |-> req.loc.results_by_case_id,
                 hardware_count_per_case_id |->
                     req.loc.hardware_count_per_case_id,
                 last_result_per_case_id |-> req.loc.last_result_per_case_id,
                 context_count_per_case_id |->
                     req.loc.context_count_per_case_id,
                 benchmark_result_count |-> req.loc.benchmark_result_count])
    /\ UNCHANGED <<bmrt_cache, nreq, cmp>>

\* show_benchmark_results, lines 124-229: the bucket is read (the lookup
\* is on a defaultdict, so the except KeyError branch is never taken), the
\* results of the case are grouped, ranked, put in the table and the plots,
\* the warning is logged unless exactly one unit was seen, and the unit of
\* the plots is popped from units_seen: any one of its elements, or
\* KeyError when the set is empty.
ShowBenchmarkResults_R125 ==
    /\ req.pc = "R125"
    /\ LET got == DefaultDictGetItem(bmrt_cache.by_benchmark_name, req.bname)
           matching_results ==
               SelectSeq(got.value, LAMBDA r : r.case_id = req.caseid)
           groups == GroupsSorted(matching_results)
           units_seen == UnitsSeen(groups)
       IN  /\ bmrt_cache' = [bmrt_cache EXCEPT !.by_benchmark_name = got.dict]
           /\ IF matching_results = <<>>
              THEN req' = Respond(Text("no results found for benchmark and case"))
              ELSE IF units_seen = {}
              THEN req' = Warned(Raise("KeyError"), TRUE)
              ELSE \E unit \in units_seen :
                     req' = Warned(
                              Proceed("R237",
                                [matching_results |-> matching_results,
                                 results_for_table |-> ResultsForTable(groups),
                                 infos_for_uplots |-> InfosForUplots(groups),
                                 y_unit_for_all_plots |->
                                     maybe_longer_unit(unit)]),
                              Cardinality(units_seen) # 1)
    /\ UNCHANGED <<nreq, cmp>>

\* show_benchmark_results, lines 231-244: bmr_cache_meta, and the page is
\* rendered.
ShowBenchmarkResults_R237 ==
    /\ req.pc = "R237"
    /\ req' = Respond(
                [kind |-> "page",
                 template |-> "c-benchmark-results-for-case.html",
                 matching_benchmark_result_count |->
                     Len(req.loc.matching_results),
                 benchmark_results_for_table |-> req.loc.results_for_table,
                 y_unit_for_all_plots |-> req.loc.y_unit_for_all_plots,
                 benchmark_name |-> req.bname,
                 bmr_cache_meta |-> bmrt_cache.meta,
                 infos_for_uplots |-> req.loc.infos_for_uplots,
                 this_case_id |-> req.loc.matching_results[1].case_id])
    /\ UNCHANGED <<bmrt_cache, nreq, cmp>>

\* ------------------------------------------------------------------------
\* The refresh job and the result store
\* ------------------------------------------------------------------------

\* The k-th result the store holds: one result of case "c2" of benchmark
\* "alpha", then MinPlotPoints results of one series of its case "c1", then
\* results of benchmark "Beta".
StoreResult(k) ==
    Result(k, IF k <= MinPlotPoints + 1 THEN "alpha" ELSE "Beta",
           IF k = 1 THEN "c2" ELSE "c1", 1, 1, k, <<k>>, "s")

\* The results the refresh job loads at its t-th refresh: the store grows
\* by one result between refreshes.
StoreAt(t) == [k \in 1..(MinPlotPoints + 1 + t) |-> StoreResult(k)]

\* The refresh job installs a new snapshot: the three views are replaced
\* together.
Install ==
    /\ CurrentSnapshot < MaxInstalls
    /\ bmrt_cache' = BuildSnapshot(StoreAt(CurrentSnapshot + 1),
                                   CurrentSnapshot + 1)
    /\ UNCHANGED <<req, nreq, cmp>>

\* ------------------------------------------------------------------------
\* Specification of the benchmark views under a running refresh job
\* ------------------------------------------------------------------------

Init ==
    /\ bmrt_cache = BuildSnapshot(StoreAt(0), 0)
    /\ req = ReqIdle
    /\ nreq = 0
    /\ cmp = CmpIdle

\* A request to any of the three views, for a name and a case that the
\* cache may or may not hold.
Arrive ==
    StartRequest(Handlers, {"", "alpha", "Beta", "zeta"}, CaseIds \cup {""},
                 MaxRequests)

Next ==
    \/ Arrive
    \/ ListBenchmarks_L37
    \/ ListBenchmarks_L43
    \/ ListBenchmarks_L57
    \/ ListBenchmarks_L58
    \/ ListBenchmarks_L63
    \/ ShowBenchmarkCases_C74
    \/ ShowBenchmarkCases_C77
    \/ ShowBenchmarkCases_C102
    \/ ShowBenchmarkResults_R125
    \/ ShowBenchmarkResults_R237
    \/ Install

Spec == Init /\ [][Next]_vars

\* ------------------------------------------------------------------------
\* Specification of the compare views: one request with any token
\* ------------------------------------------------------------------------

Tokens == SeqsUpTo(Chars, MaxTokenLen)

InitCompare ==
    /\ bmrt_cache = BuildSnapshot(StoreAt(0), 0)
    /\ req = ReqIdle
    /\ nreq = 0
    /\ cmp \in {CmpRequest(type, token) : type \in CompareTypes, token \in Tokens}

NextCompare == CompareGet

SpecCompare == InitCompare /\ [][NextCompare]_vars

\* ------------------------------------------------------------------------
\* Specification of show_benchmark_results over any bucket of one benchmark
\* ------------------------------------------------------------------------

\* Most results in a bucket whose results start at any of StartTimes.
MaxResults == 5

\* Most results in a bucket whose results start one after the other.
MaxLongResults == 7

\* The (hardware, context) pairs and the start times of the results drawn.
SeriesKeys == {<<1, 1>>, <<1, 2>>, <<2, 1>>}

StartTimes == {1, 2}

\* A bucket of results of benchmark "alpha" with ids in insertion order:
\* the k-th result belongs to the case cases[k] and the series keys[k] and
\* starts at times[k].
SeriesBucket(cases, keys, times) ==
    [k \in DOMAIN keys |->
        Result(k, "alpha", cases[k], keys[k][1], keys[k][2], times[k], <<k>>,
               "s")]

\* The units of the results drawn, in lexicographic (code point) order;
\* "B/s" has no entry in _UNIT_REPLACE_MAP.
UnitsInOrder == <<"B/s", "i/s", "s">>

\* The two series of the buckets that vary in unit or in mean.
UnitSeriesKeys == {<<1, 1>>, <<1, 2>>}

\* A bucket of results of benchmark "alpha" and case "c1" that start one
\* after the other: the k-th result belongs to the series keys[k], has the
\* unit units[k] and, unless has_mean[k] is FALSE (a failed result), the
\* mean k.
UnitsBucket(keys, units, has_mean) ==
    [k \in DOMAIN keys |->
        Result(k, "alpha", "c1", keys[k][1], keys[k][2], k,
               IF has_mean[k] THEN <<k>> ELSE None, units[k])]

\* The cache holds one bucket.  Its results are up to MaxResults results of
\* one case with any series and start time, or up to MaxResults results of
\* any case and series that start one after the other, or up to
\* MaxLongResults results of one case and any series that start one after
\* the other, or up to MaxResults results of one case in two series with
\* any unit, or up to MaxResults results of one case in two series of
\* which any may have failed.
InitSeries ==
    /\ \/ \E n \in 1..MaxResults :
            \E keys \in [1..n -> SeriesKeys], times \in [1..n -> StartTimes] :
                bmrt_cache = BuildSnapshot(
                                SeriesBucket([k \in 1..n |-> "c1"], keys, times), 0)
       \/ \E n \in 1..MaxResults :
            \E cases \in [1..n -> CaseIds], keys \in [1..n -> SeriesKeys] :
                bmrt_cache = BuildSnapshot(
                                SeriesBucket(cases, keys, [k \in 1..n |-> k]), 0)
       \/ \E n \in 1..MaxLongResults :
            \E keys \in [1..n -> SeriesKeys] :
                bmrt_cache = BuildSnapshot(
                                SeriesBucket([k \in 1..n |-> "c1"], keys,
                                             [k \in 1..n |-> k]), 0)
       \/ \E n \in 1..MaxResults :
            \E keys \in [1..n -> UnitSeriesKeys],
               units \in [1..n -> Range(UnitsInOrder)] :
                bmrt_cache = BuildSnapshot(
                                UnitsBucket(keys, units,
                                            [k \in 1..n |-> TRUE]), 0)
       \/ \E n \in 1..MaxResults :
            \E keys \in [1..n -> UnitSeriesKeys],
               has_mean \in [1..n -> BOOLEAN] :
                bmrt_cache = BuildSnapshot(
                                UnitsBucket(keys, [k \in 1..n |-> "s"],
                                            has_mean), 0)
    /\ req = ReqIdle
    /\ nreq = 0
    /\ cmp = CmpIdle

\* One request to show_benchmark_results for the benchmark of the bucket.
ArriveSeries == StartRequest({"show_benchmark_results"}, {"alpha"}, CaseIds, 1)

NextSeries ==
    \/ ArriveSeries
    \/ ShowBenchmarkResults_R125
    \/ ShowBenchmarkResults_R237

SpecSeries == InitSeries /\ [][NextSeries]_vars

\* ------------------------------------------------------------------------
\* Properties of the compare views (checked under SpecCompare)
\* ------------------------------------------------------------------------

\* The messages of the three validation error pages of Compare.get.
ValidationMessages ==
    {"unexpected URL path pattern", "no baseline ID", "no contender ID"}

\* The token has a "..." with text before the first one and text after it.
WellSeparated(token) ==
    /\ DotsAt(token) # {}
    /\ MinOf(DotsAt(token)) > 1
    /\ MinOf(DotsAt(token)) + 2 < Len(token)

\* C1: a compare token with no "...", or with nothing before its first
\* "...", or with nothing after it, ends in a validation error page, and
\* the comparison lookup is not invoked for that request.
C1_InvalidTokenIsRejectedBeforeLookup ==
    (cmp.pc = "done" /\ ~WellSeparated(cmp.compare_ids)) =>
        /\ cmp.response.kind = "error_page"
        /\ cmp.response.message \in ValidationMessages
        /\ cmp.lookups = <<>>
        /\ cmp.result = None

\* A request whose token has a baseline and the separator but no contender
\* has been answered with the validation error page.
C1_Witness ==
    /\ cmp.pc = "done"
    /\ cmp.compare_ids = <<"a", ".", ".", ".">>
    /\ cmp.response.kind = "error_page"
    /\ cmp.response.message = "no contender ID"

\* C2 as stated: a token passes validation only if it is two non-empty
\* tokens joined by "...", neither of which contains "..." itself.
C2_OnlyTokensWithOneSeparatorPass ==
    (cmp.pc = "done" /\ cmp.lookups # <<>>) =>
        \E i \in DotsAt(cmp.compare_ids) :
            LET baseline == SubSeq(cmp.compare_ids, 1, i - 1)
                contender == SubSeq(cmp.compare_ids, i + 3, Len(cmp.compare_ids))
            IN  /\ baseline # <<>> /\ contender # <<>>
                /\ ~HasDots(baseline) /\ ~HasDots(contender)

\* C2 as amended: a token passes validation exactly if it contains "..."
\* with text before the first occurrence and text after it; the lookup is
\* then called once, with the text before the first "..." as the baseline,
\* which never contains "...", and all the text after it as the contender,
\* which may contain "...".
C2_FirstSeparatorSplitsTheToken ==
    cmp.pc = "done" =>
        /\ cmp.lookups # <<>> <=> WellSeparated(cmp.compare_ids)
        /\ cmp.lookups # <<>> =>
              /\ Len(cmp.lookups) = 1
              /\ cmp.compare_ids = JoinIds(cmp.lookups[1][1], cmp.lookups[1][2])
              /\ cmp.lookups[1][1] # <<>>
              /\ cmp.lookups[1][2] # <<>>
              /\ ~HasDots(cmp.lookups[1][1])

\* The token "a...a...a" has passed validation and the lookup was called
\* with baseline "a" and contender "a...a".
C2_Witness ==
    /\ cmp.pc = "done"
    /\ cmp.compare_ids = <<"a", ".", ".", ".", "a", ".", ".", ".", "a">>
    /\ cmp.lookups = << << <<"a">>, <<"a", ".", ".", ".", "a">> >> >>

\* C3: when the lookup gives no error message and no comparison entries,
\* the response is the page "comparison yielded 0 benchmark results", which
\* is not the page used when the lookup gives an error message; and
\* Compare.page is never rendered with an empty list of comparisons.
C3_EmptyComparisonHasItsOwnOutcome ==
    (cmp.pc = "done" /\ cmp.lookups # <<>>) =>
        /\ (cmp.got[2] = NoMsg /\ cmp.got[1] = <<>>) =>
              /\ cmp.response.kind = "error_page"
              /\ cmp.response.message = "comparison yielded 0 benchmark results"
        /\ MsgTruthy(cmp.got[2]) =>
              /\ cmp.response.kind = "error_page"
              /\ cmp.response.message = "cannot perform comparison"
        /\ cmp.response.kind = "page" => cmp.response.comparisons # <<>>

\* A run comparison whose lookup returned no entries and no message has
\* been answered with the empty-comparison page.
C3_Witness ==
    /\ cmp.pc = "done"
    /\ cmp.type = "run"
    /\ cmp.lookups # <<>>
    /\ cmp.got = <<<<>>, NoMsg>>
    /\ cmp.response.message = "comparison yielded 0 benchmark results"

\* C4: in the list a successful _compare returns, an entry has a compare
\* link exactly if both its sides are present; the link carries
\* "<baseline result id>...<contender result id>" of that entry, and a
\* one-sided entry has the link set to null.
C4_CompareLinkIffBothSides ==
    (cmp.pc = "done" /\ cmp.lookups # <<>> /\ cmp.result[2] = NoMsg) =>
        /\ Len(cmp.result[1]) = Len(cmp.got[1])
        /\ \A k \in DOMAIN cmp.result[1] :
              LET c == cmp.result[1][k]
                  both == cmp.got[1][k].baseline # None
                          /\ cmp.got[1][k].contender # None
              IN  /\ c.baseline = cmp.got[1][k].baseline
                  /\ c.contender = cmp.got[1][k].contender
                  /\ c.compare_benchmarks_url # None <=> both
                  /\ both =>
                        /\ c.compare_benchmarks_url.view
                               = "app.compare-benchmark-results"
                        /\ c.compare_benchmarks_url.compare_ids
                               = c.baseline.benchmark_result_id \o Dots
                                 \o c.contender.benchmark_result_id

\* A successful _compare has returned a two-sided entry with its link and
\* a one-sided entry with a null link.
C4_Witness ==
    /\ cmp.pc = "done"
    /\ cmp.lookups # <<>>
    /\ cmp.result[2] = NoMsg
    /\ Len(cmp.result[1]) = 2
    /\ cmp.result[1][1].compare_benchmarks_url # None
    /\ cmp.result[1][2].contender = None
    /\ cmp.result[1][2].baseline # None
    /\ cmp.result[1][2].compare_benchmarks_url = None

\* ------------------------------------------------------------------------
\* Properties of the cache under the benchmark views (checked under Spec)
\* ------------------------------------------------------------------------

\* The benchmark names of the results the cache holds.
CachedNames ==
    {bmrt_cache.by_id[i][2].benchmark_name : i \in DOMAIN bmrt_cache.by_id}

\* C5: requests to the benchmark views never change the key set of
\* by_benchmark_name: its keys are the names of the cached results, and no
\* lookup of an unknown name adds a key, not even one with an empty bucket.
C5_UnknownLookupCreatesNoKey ==
    /\ DictKeys(bmrt_cache.by_benchmark_name) = CachedNames
    /\ \A n \in DOMAIN bmrt_cache.by_benchmark_name :
          bmrt_cache.by_benchmark_name[n][2] # <<>>

\* C6: every view of the cache a handler uses within one request comes
\* from the same snapshot.
C6_RequestReadsOneSnapshot ==
    req.pc = "done" => Cardinality(req.snapshots_read) <= 1

\* ------------------------------------------------------------------------
\* Properties of show_benchmark_results (checked under SpecSeries)
\* ------------------------------------------------------------------------

\* The request to show_benchmark_results has been answered with its page.
ResultsPageRendered ==
    /\ req.pc = "done"
    /\ req.handler = "show_benchmark_results"
    /\ req.resp.kind = "page"

\* The results of the requested benchmark and case, in bucket order.
RequestedResults ==
    SelectSeq(DictGet(bmrt_cache.by_benchmark_name, req.bname),
              LAMBDA r : r.case_id = req.caseid)

\* The requested results of one (hardware, context) pair, in bucket order.
SeriesOf(hwid, ctxid) ==
    SelectSeq(RequestedResults,
              LAMBDA r : r.hardware_id = hwid /\ r.context_id = ctxid)

\* The (hardware, context) pairs of the requested results.
SeriesPairs ==
    {<<RequestedResults[i].hardware_id, RequestedResults[i].context_id>> :
        i \in DOMAIN RequestedResults}

SeriesSize(pair) == Len(SeriesOf(pair[1], pair[2]))

\* C7: the plotted series are exactly the (hardware, context) groups with
\* at least 3 results, each with all its points, and both the plotted
\* series and the rows of the table come in order of descending group
\* size; a table below its cap holds every result of the case.
C7_PlotsAndTableRankedBySize ==
    ResultsPageRendered =>
        LET infos == req.resp.infos_for_uplots
            table == req.resp.benchmark_results_for_table
            RowSize(r) == SeriesSize(<<r.hardware_id, r.context_id>>)
        IN  /\ {infos[n].key : n \in DOMAIN infos}
                  = {p \in SeriesPairs : SeriesSize(p) >= MinPlotPoints}
            /\ \A m, n \in DOMAIN infos : m # n => infos[m].key # infos[n].key
            /\ \A n \in DOMAIN infos :
                  Len(infos[n].data_for_uplot[1]) = SeriesSize(infos[n].key)
            /\ \A m, n \in DOMAIN infos :
                  m < n => SeriesSize(infos[m].key) >= SeriesSize(infos[n].key)
            /\ \A i, j \in DOMAIN table : i < j => RowSize(table[i]) >= RowSize(table[j])
            /\ Len(RequestedResults) < TableCap =>
                  /\ Len(table) = Len(RequestedResults)
                  /\ Range(table) = Range(RequestedResults)

\* The page of a case with three groups has been rendered: the group met
\* first in the bucket is smaller than the one met second, one group is
\* plotted, one is too small to plot, and the table holds all three.
C7_Witness ==
    /\ ResultsPageRendered
    /\ Cardinality(SeriesPairs) = 3
    /\ LET groups == GroupsInInsertionOrder(RequestedResults)
       IN  Len(groups[1][2]) < Len(groups[2][2])
    /\ \E p \in SeriesPairs : SeriesSize(p) < MinPlotPoints
    /\ Len(req.resp.infos_for_uplots) >= 1
    /\ Len(req.resp.benchmark_results_for_table) = Len(RequestedResults)
    /\ Cardinality({<<req.resp.benchmark_results_for_table[i].hardware_id,
                      req.resp.benchmark_results_for_table[i].context_id>> :
                        i \in DOMAIN req.resp.benchmark_results_for_table}) = 3

\* C8: the table never holds more rows than its cap.
C8_TableNeverExceedsCap ==
    ResultsPageRendered =>
        Len(req.resp.benchmark_results_for_table) <= TableCap

\* C9: in every plotted series the timestamps are in ascending order.
C9_PlotPointsAscendByStartTime ==
    ResultsPageRendered =>
        \A n \in DOMAIN req.resp.infos_for_uplots :
            LET timestamps == req.resp.infos_for_uplots[n].data_for_uplot[1]
            IN  \A i, j \in DOMAIN timestamps :
                    i < j => timestamps[i] <= timestamps[j]

\* `reversed(s)`: the same items in the opposite order.
Reversed(s) == [i \in DOMAIN s |-> s[Len(s) + 1 - i]]

\* C10: the newest result selected for a series is the same for every
\* ordering of the series' results: the one linked from the plot is also
\* the one selected when the same results are listed in reverse.
C10_NewestIsTheSameForEveryOrder ==
    ResultsPageRendered =>
        \A n \in DOMAIN req.resp.infos_for_uplots :
            LET info == req.resp.infos_for_uplots[n]
                results == SeriesOf(info.key[1], info.key[2])
            IN  info.url_to_newest_result
                    = newest_of_many_results(Reversed(results)).id

\* The units of the requested results that belong to a series with at
\* least MinPlotPoints results.
ObservedUnits ==
    {RequestedResults[i].unit :
        i \in {j \in DOMAIN RequestedResults :
                  SeriesSize(<<RequestedResults[j].hardware_id,
                               RequestedResults[j].context_id>>)
                      >= MinPlotPoints}}

\* The lexicographically smallest of a non-empty set of units.
SmallestUnit(units) ==
    UnitsInOrder[MinOf({i \in DOMAIN UnitsInOrder : UnitsInOrder[i] \in units})]

ResultsRequestEnded ==
    /\ req.pc = "done"
    /\ req.handler = "show_benchmark_results"

\* C12: a request to show_benchmark_results for a benchmark and case with
\* at least one result ends with its page whatever the number of distinct
\* units seen in the plotted series, none included, and the warning is in
\* the log only if more than one distinct unit was seen.
C12_UnitCheckIsNeverFatal ==
    (ResultsRequestEnded /\ RequestedResults # <<>>) =>
        /\ req.resp.kind = "page"
        /\ req.log # <<>> => Cardinality(ObservedUnits) > 1

\* C13: in every plot info the timestamp array and the mean array of
\* data_for_uplot have the same length, and the i-th mean is the mean of
\* the result of the series whose started_at is the i-th timestamp, also
\* when results of the series have no mean.
C13_PlotArraysAlignedPointByPoint ==
    ResultsPageRendered =>
        \A n \in DOMAIN req.resp.infos_for_uplots :
            LET info == req.resp.infos_for_uplots[n]
                timestamps == info.data_for_uplot[1]
                means == info.data_for_uplot[2]
                results == SeriesOf(info.key[1], info.key[2])
            IN  /\ Len(timestamps) = Len(means)
                /\ \A i \in DOMAIN means :
                      /\ results[i].started_at = timestamps[i]
                      /\ results[i].mean \in {None, <<means[i]>>}

=============================================================================
